---------------------------- MODULE Spec2Model ----------------------------
(***************************************************************************)
(* State-machine model of the two search engines of fast-cma-es:           *)
(*   src/_fcmaescpp/ldeoptimizer.cpp   (LDE,  single objective)            *)
(*   src/_fcmaescpp/modeoptimizer.cpp  (MODE, multi objective)             *)
(*                                                                         *)
(* Conventions.                                                            *)
(*  - A vec is a function 0..n-1 -> value, a mat a function from column    *)
(*    index 0..cols-1 to a vec, so y(j, i) of the source is y[i][j].       *)
(*  - Objective values are naturals 0..MaxY; 1E99 (the value a non-finite  *)
(*    result is coerced to) and DBL_MAX are the two next larger numbers,   *)
(*    with the absorbing arithmetic doubles have at that magnitude.        *)
(*  - Random draws and user callbacks are nondeterministic choices.         *)
(*  - sort_index is std::sort based: the order of equal keys is not        *)
(*    fixed, so every operator built on it yields the SET of its possible  *)
(*    results.                                                             *)
(***************************************************************************)
EXTENDS Integers, Sequences, FiniteSets, TLC

VARIABLES
    \* ---- harness of the pure ranking functions (SpecRank)
    op,             \* which function was applied: "input", "pareto", "crowd_dist",
                    \* "pareto_levels", "pop_update"
    arg,            \* the matrix it was applied to
    ret,            \* the vector it returned
    \* ---- MoDeOptimizer members read by the ranking kernel
    nobj,           \* number of objectives
    ncon,           \* number of constraints
    \* ---- l_differential_evolution::Fitness (coordinates in units of 1/2,
    \*      sigmas in units of 1/16)
    dim,
    lower,          \* <<>> when bounds are not defined
    upper,
    guess,
    xmean,
    sigma0,
    sigma,
    maxSigma,
    scale,
    evaluationCounter,
    \* ---- LDeOptimizer
    popsize,
    maxEvaluations,
    keep,
    stopfitness,    \* <<value>>, or Inf for "not finite"
    iterations,
    bestY,
    bestX,
    bestI,
    stop,
    popX,
    popY,
    popIter,
    isInt,          \* NULL or a vec of booleans
    pc,             \* where the run is: "for", "slot", "return", "catch", "done",
                    \* "escaped", "idle"
    p,              \* the slot the for loop of doOptimize is at
    evalX,          \* the vectors handed to Fitness::eval by the last slot step
    res,            \* the caller's result buffer
    \* ---- MoDeOptimizer (it also has dim, popsize, maxEvaluations, iterations,
    \*      stop, popX, popY, isInt; its Fitness has lower, upper and the
    \*      evaluation counter)
    nX,             \* pending results of tell: decision vectors
    nY,             \* pending results of tell: objective and constraint values
    vdone,          \* which pending slots are filled
    vX,             \* offspring precomputed by variation
    vp,             \* cursor into vX
    pos,            \* the slot the next ask hands out
    n_evals,
    nsga_update,
    pareto_update,
    log_period,
    terminate,      \* Fitness: the terminate flag set through the log callback
    \* ---- do_optimize_delayed_update and its evaluator
    workers,
    prime_i,        \* the loop counter i of the priming loop
    requests,       \* evaluator: queue of <<x, id>> waiting for a worker
    jobs,           \* evaluator: what each worker thread evaluates, <<>> if idle
    results,        \* evaluator: queue of <<y, id, x evaluated>>
    evals_x,
    told,           \* the last call of tell: <<y, x, p, popY.col(p) at the call,
                    \* the x whose evaluation produced y>>
    \* ---- the caller's side of the ask/tell interface
    xs              \* the buffer handed to askMODE_C / populationMODE_C

rankVars == <<op, arg, ret>>
kernelVars == <<nobj, ncon>>
fitVars == <<dim, lower, upper, guess, xmean, sigma0, sigma, maxSigma, scale,
             evaluationCounter>>
ldeVars == <<popsize, maxEvaluations, keep, stopfitness, iterations, bestY,
             bestX, bestI, stop, popX, popY, popIter, isInt, pc, p, evalX, res>>
modeVars == <<nX, nY, vdone, vX, vp, pos, n_evals, nsga_update, pareto_update,
              log_period, terminate>>
parVars == <<workers, prime_i, requests, jobs, results, evals_x, told>>
modeAll == <<modeVars, parVars, xs>>
vars == <<rankVars, kernelVars, fitVars, ldeVars, modeAll>>

--------------------------------------------------------------------------
(* Bounds of the model *)

\* objective values are 0..MaxY
MaxY == 1
\* constraint values are 0..MaxCon (0: satisfied, > 0: violated)
MaxCon == 1

\* coordinates range over -1..MaxX halves when drawn freely
MaxX == 3
\* inputSigma ranges over 0..MaxInputSigma quarters
MaxInputSigma == 3

\* number of columns of the matrices handed to the ranking functions
RankCols == {2, 3}
\* (nobj, ncon) of the matrices handed to pareto
RankShapes == {<<1, 1>>, <<2, 1>>, <<1, 2>>}

--------------------------------------------------------------------------
(* Doubles *)

\* a null pointer to an array
NULL == <<>>
\* a stop fitness that is not finite; a finite one is <<value>>
Inf == <<>>

E99 == MaxY + 1
DBL_MAX == MaxY + 2

\* a - b for doubles a >= b >= 0: below the ulp of 1E99 / DBL_MAX the
\* subtrahend is absorbed
FSub(a, b) ==
    IF a = b THEN 0
    ELSE IF a >= E99 THEN a
    ELSE a - b

\* a + b for doubles a, b >= 0 whose sum does not overflow
FAdd(a, b) ==
    IF a >= E99 \/ b >= E99 THEN (IF a >= b THEN a ELSE b)
    ELSE a + b

--------------------------------------------------------------------------
(* Eigen helpers *)

Size(v) == Cardinality(DOMAIN v)
Idx(v) == 0 .. (Size(v) - 1)

zeros(n) == [i \in 0 .. (n - 1) |-> 0]
constant(n, val) == [i \in 0 .. (n - 1) |-> val]

\* y.row(j) of a mat
Row(y, j) == [i \in Idx(y) |-> y[i][j]]
\* y(Eigen::indexing::all, idx): the columns idx[0], idx[1], ...
Cols(y, idx) == [i \in Idx(idx) |-> y[idx[i]]]
\* y(seqN(first, n), all): n rows from row first on
RowsN(y, first, n) == [i \in Idx(y) |-> [j \in 0 .. (n - 1) |-> y[i][first + j]]]
\* x.reverse()
Reverse(v) == [i \in Idx(v) |-> v[Size(v) - 1 - i]]

Max(a, b) == IF a >= b THEN a ELSE b
Min(a, b) == IF a <= b THEN a ELSE b

\* v.maxCoeff() of a non-empty vec
maxCoeff(v) == CHOOSE m \in {v[i] : i \in Idx(v)} : \A i \in Idx(v) : v[i] <= m
\* S as an ascending vec (std::vector filled by an ascending loop)
RECURSIVE Ascending(_)
Ascending(S) ==
    IF S = {} THEN <<>>
    ELSE LET m == CHOOSE a \in S : \A b \in S : a <= b
         IN <<m>> \o Ascending(S \ {m})
Vec(s) == [i \in 0 .. (Len(s) - 1) |-> s[i + 1]]
AscendingVec(S) == Vec(Ascending(S))

\* the orders in which the indices S of x can follow the sequence done so
\* that the values ascend
RECURSIVE SortOrders(_, _, _)
SortOrders(x, S, done) ==
    IF S = {} THEN {Vec(done)}
    ELSE UNION {SortOrders(x, S \ {m}, Append(done, m)) :
                m \in {a \in S : \A b \in S : x[a] <= x[b]}}

\* evaluator.h sort_index(x): the indices of x in ascending order of value.
\* All orders std::sort may produce: equal keys come in any order.
sort_index(x) == SortOrders(x, Idx(x), <<>>)

--------------------------------------------------------------------------
(* Parts of the state a specification does not use *)

RankIdle == op = "idle" /\ arg = <<>> /\ ret = <<>>
KernelIdle == nobj = 1 /\ ncon = 0
FitIdle ==
    /\ dim = 0 /\ lower = <<>> /\ upper = <<>> /\ guess = <<>> /\ xmean = <<>>
    /\ sigma0 = <<>> /\ sigma = <<>> /\ maxSigma = <<>> /\ scale = <<>>
    /\ evaluationCounter = 0
LdeIdle ==
    /\ popsize = 0 /\ maxEvaluations = 0 /\ keep = 0 /\ stopfitness = Inf
    /\ iterations = 0 /\ bestY = 0 /\ bestX = <<>> /\ bestI = 0 /\ stop = 0
    /\ popX = <<>> /\ popY = <<>> /\ popIter = <<>> /\ isInt = NULL
    /\ pc = "idle" /\ p = 0 /\ evalX = <<>> /\ res = <<>>
ModeIdle ==
    /\ nX = <<>> /\ nY = <<>> /\ vdone = <<>> /\ vX = <<>> /\ vp = 0 /\ pos = 0
    /\ n_evals = 0 /\ nsga_update = FALSE /\ pareto_update = 0
    /\ log_period = 0 /\ terminate = FALSE
ParIdle ==
    /\ workers = 0 /\ prime_i = 0 /\ requests = <<>> /\ jobs = <<>> /\ results = <<>>
    /\ evals_x = <<>> /\ told = <<>>
ApiIdle == xs = <<>>

--------------------------------------------------------------------------
(* Ranking kernel of MoDeOptimizer *)

\* the position of column c in the sorted index si
PosOf(si, c) == CHOOSE k \in Idx(si) : si[k] = c

RECURSIVE SumOver(_, _)
SumOver(f, S) ==
    IF S = {} THEN 0
    ELSE LET a == CHOOSE b \in S : TRUE IN f[a] + SumOver(f, S \ {a})

\* one choice of sort_index per row of the matrix m
RowSorts(m) ==
    LET rows == Idx(m[0])
        sorts == [j \in rows |-> sort_index(Row(m, j))]
    IN {ci \in [rows -> UNION {sorts[j] : j \in rows}] :
           \A j \in rows : ci[j] \in sorts[j]}

\* crowd_dist with the mutation "the right border is not kept"
crowd_dist_si_noRight(y, si) ==
    LET n == Size(y)
        y0 == Row(y, 0)
        y0s == [i \in 0 .. (n - 1) |-> y0[si[i]]]
        d == [i \in 0 .. (n - 2) |-> FSub(y0s[i + 1], y0s[i])]
        dsum == [i \in 0 .. (n - 1) |->
                    IF i = 0 THEN DBL_MAX
                    ELSE FAdd(d[i - 1], IF i < n - 1 THEN d[i] ELSE 0)]
    IN IF maxCoeff(d) = 0 THEN zeros(n)
       ELSE [c \in 0 .. (n - 1) |-> dsum[PosOf(si, c)]]

\* crowd_dist(y) once sort_index(y0) has returned si; y has >= 2 columns
crowd_dist_si(y, si) ==
    LET n == Size(y)
        y0 == Row(y, 0)
        y0s == [i \in 0 .. (n - 1) |-> y0[si[i]]]
        d == [i \in 0 .. (n - 2) |-> FSub(y0s[i + 1], y0s[i])]
        dsum == [i \in 0 .. (n - 1) |->
                    IF i = 0 \/ i = n - 1 THEN DBL_MAX
                    ELSE FAdd(d[i - 1], d[i])]
    IN IF maxCoeff(d) = 0 THEN zeros(n)
       ELSE [c \in 0 .. (n - 1) |-> dsum[PosOf(si, c)]]

crowd_dist(y) == {crowd_dist_si(y, si) : si \in sort_index(Row(y, 0))}

\* is_dominated(const mat &y, int i, int index) with the mutation "the
\* comparison is reversed"
is_dominated_mat_rev(y, i, index) ==
    \A j \in Idx(y[i]) : ~(y[i][j] > y[index][j])

\* is_dominated(const mat &y, int i, int index)
is_dominated_mat(y, i, index) ==
    \A j \in Idx(y[i]) : ~(y[i][j] < y[index][j])

\* the next index > index whose mask is set, or n.  The source reads
\* mask[n] when it runs off the end; whatever that read yields, the
\* loop ends with index = n.
NextAlive(mask, index, n) ==
    LET S == {k \in (index + 1) .. (n - 1) : mask[k]}
    IN IF S = {} THEN n ELSE CHOOSE k \in S : \A l \in S : k <= l

RECURSIVE pareto_levels_loop(_, _, _, _)
pareto_levels_loop(y, index, mask, domination) ==
    LET n == Size(y) IN
    IF index >= n THEN domination
    ELSE LET mask1 == [i \in 0 .. (n - 1) |->
                          IF i # index /\ mask[i] /\ is_dominated_mat(y, i, index)
                          THEN FALSE ELSE mask[i]]
             dom1 == [i \in 0 .. (n - 1) |->
                          IF mask1[i] THEN domination[i] + 1 ELSE domination[i]]
         IN pareto_levels_loop(y, NextAlive(mask1, index, n), mask1, dom1)

pareto_levels(y) ==
    pareto_levels_loop(y, 0, [i \in Idx(y) |-> TRUE], zeros(Size(y)))

\* objranks(objs) once the rows are sorted as ci
objranks_ci(objs, ci) ==
    [i \in Idx(objs) |-> SumOver([j \in Idx(objs[0]) |-> PosOf(ci[j], i)], Idx(objs[0]))]

objranks(objs) == {objranks_ci(objs, ci) : ci \in RowSorts(objs)}

\* ranks(cons) once the rows are sorted as ci.  The source divides every
\* rank by cons.rows(); the model keeps the sum multiplied by cons.rows()
\* (see pareto), so that it stays an integer.
ranks_ci(cons, ci) ==
    LET rows == Idx(cons[0])
        alpha == [i \in Idx(cons) |-> Cardinality({j \in rows : cons[i][j] > 0})]
        rank == [i \in Idx(cons) |-> [j \in rows |->
                    IF cons[i][j] <= 0 THEN 0 ELSE PosOf(ci[j], i)]]
    IN [i \in Idx(cons) |-> alpha[i] * SumOver(rank[i], rows)]

ranks(cons) == {ranks_ci(cons, ci) : ci \in RowSorts(cons)}

SeqOf(v) == [k \in 1 .. Size(v) |-> v[k - 1]]

\* the bonus that lifts the feasible columns over the infeasible ones
FeasibleBonus_low(maxcdom) == maxcdom - 1
FeasibleBonus(maxcdom) == maxcdom + 1

\* the infeasible columns of ys in the order of ci = sort_index(csum): the
\* orders in which they ascend by csum
InfeasibleSorted(ys, csum) ==
    LET ycon == RowsN(ys, Size(ys[0]) - ncon, ncon)
    IN SortOrders(csum, {c \in Idx(ys) : ~(maxCoeff(ycon[c]) <= 0)}, <<>>)

\* pareto(ys) for ncon > 0, the infeasible columns given as civ in the
\* order of their csum
pareto_civ(ys, civ) ==
    LET yobj == RowsN(ys, 0, nobj)
        ycon == RowsN(ys, Size(ys[0]) - ncon, ncon)
        feasible == [i \in Idx(ys) |-> maxCoeff(ycon[i]) <= 0]
        cy == AscendingVec({i \in Idx(ys) : feasible[i]})
        ypar == IF Size(cy) > 0 THEN pareto_levels(Cols(yobj, cy)) ELSE <<>>
        dom0 == [i \in Idx(ys) |-> IF feasible[i] THEN ypar[PosOf(cy, i)] ELSE 0]
        maxcdom == Size(civ)
    IN IF maxcdom > 0
       THEN [i \in Idx(ys) |->
                IF feasible[i] THEN dom0[i] + FeasibleBonus(maxcdom)
                ELSE dom0[i] + (maxcdom - PosOf(civ, i))]
       ELSE dom0

\* vec pareto(const mat &ys): the set of vectors it may return.  csum is
\* kept multiplied by ncon (see ranks_ci).
pareto(ys) ==
    IF ncon = 0 THEN {pareto_levels(ys)}
    ELSE
      LET yobj == RowsN(ys, 0, nobj)
          ycon == RowsN(ys, Size(ys[0]) - ncon, ncon)
          hasFeasible == \E i \in Idx(ys) : maxCoeff(ycon[i]) <= 0
          csums == IF hasFeasible
                   THEN {[i \in Idx(ys) |-> r[i] + ncon * o[i]] :
                            r \in ranks(ycon), o \in objranks(yobj)}
                   ELSE ranks(ycon)
          civs == UNION {InfeasibleSorted(ys, csum) : csum \in csums}
      IN {pareto_civ(ys, civ) : civ \in civs}

--------------------------------------------------------------------------
(* SpecRank: the ranking functions applied to every small matrix *)

ObjVals == (0 .. MaxY) \cup {DBL_MAX}
ConVals == 0 .. MaxCon

RankInputs(n, no, nc) ==
    {[i \in 0 .. (n - 1) |-> [j \in 0 .. (no + nc - 1) |->
          IF j < no THEN o[i][j] ELSE c[i][j - no]]] :
        o \in [0 .. (n - 1) -> [0 .. (no - 1) -> ObjVals]],
        c \in [0 .. (n - 1) -> [0 .. (nc - 1) -> ConVals]]}

RankInit ==
    /\ FitIdle /\ LdeIdle /\ ModeIdle /\ ParIdle /\ ApiIdle
    /\ op = "input"
    /\ ret = <<>>
    /\ \E sh \in RankShapes, n \in RankCols :
          /\ nobj = sh[1]
          /\ ncon = sh[2]
          /\ arg \in RankInputs(n, sh[1], sh[2])

CallPareto ==
    /\ op = "input"
    /\ \E d \in pareto(arg) : ret' = d
    /\ op' = "pareto"
    /\ UNCHANGED <<arg, nobj, ncon, fitVars, ldeVars, modeAll>>

CallCrowdDist ==
    /\ op = "input"
    /\ \E d \in crowd_dist(arg) : ret' = d
    /\ op' = "crowd_dist"
    /\ UNCHANGED <<arg, nobj, ncon, fitVars, ldeVars, modeAll>>

\* pareto_levels applied to the objective rows of the matrix
CallParetoLevels ==
    /\ op = "input"
    /\ ret' = pareto_levels(RowsN(arg, 0, nobj))
    /\ op' = "pareto_levels"
    /\ UNCHANGED <<arg, nobj, ncon, fitVars, ldeVars, modeAll>>

RankNext == CallPareto \/ CallCrowdDist \/ CallParetoLevels

SpecRank == RankInit /\ [][RankNext]_vars

--------------------------------------------------------------------------
(* Claims about the ranking kernel *)

Feasible(col) == \A j \in nobj .. (nobj + ncon - 1) : col[j] <= 0

\* C2: whenever pareto ranks a matrix with constraints in which some column
\* is feasible, every feasible column gets a strictly higher domination
\* score than every infeasible column.
C2_FeasibilityPriority ==
    (op = "pareto" /\ ncon > 0 /\ \E i \in Idx(arg) : Feasible(arg[i]))
    => \A a, b \in Idx(arg) :
          (Feasible(arg[a]) /\ ~Feasible(arg[b])) => ret[a] > ret[b]

\* C2 witness: pareto has ranked a matrix holding a feasible and an
\* infeasible column
C2_Witness ==
    /\ op = "pareto" /\ ncon > 0
    /\ \E a, b \in Idx(arg) : Feasible(arg[a]) /\ ~Feasible(arg[b])

MinY0 == CHOOSE m \in {arg[i][0] : i \in Idx(arg)} : \A i \in Idx(arg) : m <= arg[i][0]
MaxY0 == CHOOSE m \in {arg[i][0] : i \in Idx(arg)} : \A i \in Idx(arg) : m >= arg[i][0]

Dominates(a, b) ==
    /\ \A j \in 0 .. (nobj - 1) : a[j] <= b[j]
    /\ \E j \in 0 .. (nobj - 1) : a[j] < b[j]

\* C16: for every objective matrix and every pair of columns a, b, if a
\* Pareto-dominates b then pareto_levels gives a a score at least as high
\* as b's.
C16_LevelsRespectDominance ==
    op = "pareto_levels"
    => \A a, b \in Idx(arg) :
          Dominates(arg[a], arg[b]) => ret[a] >= ret[b]

\* C16 witness: pareto_levels has scored a matrix of two objectives and
\* three columns holding a chain a dominates b dominates c and has given
\* them strictly descending scores
C16_Witness ==
    /\ op = "pareto_levels" /\ nobj = 2 /\ Size(arg) = 3
    /\ \E a, b, c \in Idx(arg) :
          /\ Dominates(arg[a], arg[b]) /\ Dominates(arg[b], arg[c])
          /\ ret[a] > ret[b] /\ ret[b] > ret[c]

--------------------------------------------------------------------------
(* l_differential_evolution::Fitness.  A coordinate v stands for the double *)
(* v/2, a sigma s for the double s/16, an inputSigma q for q/4.            *)

Grid == -1 .. MaxX

Abs(a) == IF a < 0 THEN 0 - a ELSE a

\* all vecs x with x[j] \in S[j]
ProductVec(S) ==
    {x \in [DOMAIN S -> UNION {S[j] : j \in DOMAIN S}] : \A j \in DOMAIN S : x[j] \in S[j]}

\* optimizeLDE_C: the bounds are dropped when every lower[i] and upper[i] is 0
LimitOrEmpty(lo, up, v) ==
    IF \E i \in Idx(lo) : lo[i] # 0 \/ up[i] # 0 THEN v ELSE <<>>

\* Fitness::Fitness as optimizeLDE_C calls it; inputSigma has dim entries
FitnessInit(dim_, lower_, upper_, guess_, sigma_) ==
    /\ dim = dim_
    /\ lower = LimitOrEmpty(lower_, upper_, lower_)
    /\ upper = LimitOrEmpty(lower_, upper_, upper_)
    /\ guess = guess_
    /\ xmean = guess_
    /\ evaluationCounter = 0
    /\ scale = IF Size(lower) > 0
               THEN [i \in 0 .. (dim_ - 1) |-> upper_[i] - lower_[i]]
               ELSE constant(dim_, 2)
    /\ maxSigma = [i \in 0 .. (dim_ - 1) |-> 2 * scale[i]]
    /\ sigma0 = [i \in 0 .. (dim_ - 1) |-> scale[i] * sigma_[i]]
    /\ sigma = sigma0

\* updateSigma with the mutation "delta is not capped by maxSigma"
NewSigma_noMin(X) ==
    [i \in 0 .. (dim - 1) |-> 4 * Abs(xmean[i] - X[i])]

\* the sigma updateSigma(X) computes
NewSigma(X) ==
    [i \in 0 .. (dim - 1) |-> Min(4 * Abs(xmean[i] - X[i]), maxSigma[i])]

\* bool feasible(int i, double x)
feasible(i, x) == Size(lower) = 0 \/ (x >= lower[i] /\ x <= upper[i])

\* vec getClosestFeasible(const vec &X)
getClosestFeasible(X) ==
    IF Size(lower) > 0
    THEN [i \in Idx(X) |-> Max(Min(X[i], upper[i]), lower[i])]
    ELSE X

\* the values normreal(xmean[i], sd, rs) may return
normreal(i, sd) == IF sd = 0 THEN {xmean[i]} ELSE Grid

\* double normXi(int i): rejection sampling with sigma0 or with sigma.  A
\* branch whose every draw is infeasible never returns: it yields nothing.
normXi(i) ==
    {nx \in normreal(i, sigma0[i]) \cup normreal(i, sigma[i]) : feasible(i, nx)}

\* vec normX(): one coin flip chooses sigma0 or sigma for all coordinates
normX ==
    LET draw(sd) == {getClosestFeasible(nv) :
                        nv \in ProductVec([i \in 0 .. (dim - 1) |-> normreal(i, sd[i])])}
    IN draw(sigma0) \cup draw(sigma)

--------------------------------------------------------------------------
(* SpecFit: the Fitness wrapper of LDE under arbitrary updateSigma calls *)

FitDims == {1, 2}
FitBoxes == {b \in Grid \X Grid : b[1] <= b[2]}

FitInit ==
    /\ ret = <<>>
    /\ op = "Fitness"
    /\ KernelIdle /\ LdeIdle /\ ModeIdle /\ ParIdle /\ ApiIdle
    /\ \E d \in FitDims, b \in FitBoxes, g \in Grid :
          /\ arg \in [0 .. (d - 1) -> 0 .. MaxInputSigma]
          /\ FitnessInit(d, constant(d, b[1]), constant(d, b[2]), constant(d, g), arg)

\* void updateSigma(const vec &X)
updateSigma(X) ==
    /\ sigma' = NewSigma(X)
    /\ xmean' = X
    /\ UNCHANGED <<dim, lower, upper, guess, sigma0, maxSigma, scale, evaluationCounter>>

CallUpdateSigma ==
    /\ \E X \in [0 .. (dim - 1) -> Grid] : updateSigma(X)
    /\ op' = "updateSigma"
    /\ UNCHANGED <<arg, ret, kernelVars, ldeVars, modeAll>>

FitNext == CallUpdateSigma

SpecFit == FitInit /\ [][FitNext]_vars

--------------------------------------------------------------------------
(* LDeOptimizer *)

\* the run is configured with F_ = 2.0, so that F0 and 0.5 * F0 stay on the
\* coordinate grid
F0 == 2

\* (int) v for the double v/2, as a coordinate: truncation toward zero
Trunc(v) == IF v >= 0 THEN 2 * (v \div 2) ELSE 0 - 2 * ((0 - v) \div 2)
\* d * 0.5, rounded toward zero to the coordinate grid
Half(d) == IF d >= 0 THEN d \div 2 ELSE 0 - ((0 - d) \div 2)
\* x[i] == round(x[i]) for the double v/2
IsInteger(v) == v % 2 = 0

\* the values the objective callback may produce through Fitness::eval:
\* a finite value, or 1E99 for a result that is NaN or not finite
EvalVals == (0 .. MaxY) \cup {E99}

\* LDeOptimizer::LDeOptimizer and init()
LdeConstruct(popsize_, maxEvaluations_, keep_, stopfitness_, isInt_) ==
    /\ popsize = IF popsize_ > 0 THEN popsize_ ELSE 15 * dim
    /\ maxEvaluations = IF maxEvaluations_ > 0 THEN maxEvaluations_ ELSE 50000
    /\ keep = IF keep_ > 0 THEN keep_ ELSE 30
    /\ stopfitness = stopfitness_
    /\ iterations = 0
    /\ bestY = DBL_MAX
    /\ stop = 0
    /\ isInt = isInt_
    /\ popX = [q \in 0 .. (popsize - 1) |-> guess]
    /\ popY = [q \in 0 .. (popsize - 1) |-> DBL_MAX]
    /\ bestI = 0
    /\ bestX = guess
    /\ popIter = zeros(popsize)

\* the DE/best/1 trial vectors of one slot: pivot r, crossover draws cr,
\* infeasible coordinates replaced by normXi
Trial(xp, xb, x1, x2, F) ==
    UNION {ProductVec([j \in 0 .. (dim - 1) |->
                IF j = r \/ j \in cr
                THEN LET v == xb[j] + F * (x1[j] - x2[j])
                     IN IF feasible(j, v) THEN {v} ELSE normXi(j)
                ELSE {xp[j]}]) :
           r \in 0 .. (dim - 1), cr \in SUBSET (0 .. (dim - 1))}

\* void modify(vec &x): each integer coordinate is kept or resampled
modify(x) ==
    IF isInt = NULL THEN {x}
    ELSE ProductVec([i \in Idx(x) |->
            IF isInt[i] THEN {x[i]} \cup {Trunc(nx) : nx \in normXi(i)} ELSE {x[i]}])

\* vec next_improve(xb, x, xi)
next_improve(xb, x, xi) ==
    modify(getClosestFeasible([i \in Idx(x) |-> xb[i] + Half(x[i] - xi[i])]))

\* keep * rnd01() < iterations - popIter[p], rnd01() in [0, 1)
ReinitDraws ==
    {b \in BOOLEAN : IF b THEN iterations - popIter[p] > 0
                          ELSE iterations - popIter[p] < keep}

\* the test that guards the update of bestY, with the mutation "a new
\* incumbent always becomes the best value"
ImprovesBest_always(y) == TRUE
\* y < bestY
ImprovesBest(y) == y < bestY

\* the for loop's step to the next slot, or to the next generation
LdeAdvance ==
    IF p + 1 < popsize
    THEN p' = p + 1 /\ pc' = "slot" /\ UNCHANGED iterations
    ELSE p' = 0 /\ pc' = "for" /\ iterations' = iterations + 1

\* lines 303-317: the improving trial (x, y) is committed to slot p
LdeCommit(x, y) ==
    LET popY1 == [popY EXCEPT ![p] = y]
        newBestI == y < popY1[bestI]
        newBest == newBestI /\ ImprovesBest(y)
        stopNow == newBest /\ stopfitness # Inf /\ y < stopfitness[1]
    IN /\ popX' = [popX EXCEPT ![p] = x]
       /\ popY' = popY1
       /\ popIter' = [popIter EXCEPT ![p] = iterations]
       /\ bestI' = IF newBestI THEN p ELSE bestI
       /\ IF newBest
          THEN /\ sigma' = NewSigma(x)
               /\ xmean' = x
               /\ bestY' = y
               /\ bestX' = x
          ELSE UNCHANGED <<sigma, xmean, bestY, bestX>>
       /\ IF stopNow
          THEN stop' = 1 /\ pc' = "return" /\ UNCHANGED <<p, iterations>>
          ELSE UNCHANGED stop /\ LdeAdvance

\* void doOptimize(): entry
LdeEnter ==
    /\ pc = "start"
    /\ iterations' = 1
    /\ pc' = "for"
    /\ UNCHANGED <<modeAll, rankVars, kernelVars, fitVars, popsize, maxEvaluations, keep,
                   stopfitness, bestY, bestX, bestI, stop, popX, popY, popIter,
                   isInt, p, evalX, res>>

\* the generation loop's test
LdeFor ==
    /\ pc = "for"
    /\ pc' = IF evaluationCounter < maxEvaluations THEN "slot" ELSE "return"
    /\ p' = 0
    /\ UNCHANGED <<modeAll, rankVars, kernelVars, fitVars, popsize, maxEvaluations, keep,
                   stopfitness, iterations, bestY, bestX, bestI, stop, popX, popY,
                   popIter, isInt, evalX, res>>

\* the vectors (x1, x2) the draws of r1 and r2 may select for slot p:
\* r1 differs from p and bestI, r2 from p, bestI and r1
DonorPairs ==
    LET S == (0 .. (popsize - 1)) \ {p, bestI}
    IN {<<popX[r[1]], popX[r[2]]>> : r \in {q \in S \X S : q[1] # q[2]}}

\* one pass of the body of the slot loop (lines 272-324)
LdeSlot ==
    /\ pc = "slot"
    /\ LET F == IF iterations % 2 = 0 THEN F0 \div 2 ELSE F0
           xp == popX[p]
           xb == popX[bestI]
           trials == UNION {UNION {modify(xt) : xt \in Trial(xp, xb, d[1], d[2], F)} :
                            d \in DonorPairs}
       IN \E x \in trials :
          \E y \in EvalVals :
             IF y < popY[p]
             THEN \E x2 \in next_improve(xb, x, xp) :
                  \E y2 \in EvalVals :
                     /\ evalX' = <<x, x2>>
                     /\ evaluationCounter' = evaluationCounter + 2
                     /\ IF y2 < y THEN LdeCommit(x2, y2) ELSE LdeCommit(x, y)
             ELSE /\ evalX' = <<x>>
                  /\ evaluationCounter' = evaluationCounter + 1
                  /\ \E reinit \in ReinitDraws :
                        IF reinit
                        THEN /\ \E nx \in normX : popX' = [popX EXCEPT ![p] = nx]
                             /\ popY' = [popY EXCEPT ![p] = DBL_MAX]
                        ELSE UNCHANGED <<popX, popY>>
                  /\ LdeAdvance
                  /\ UNCHANGED <<sigma, xmean, bestY, bestX, bestI, stop, popIter>>
    /\ UNCHANGED <<modeAll, rankVars, kernelVars, dim, lower, upper, guess, sigma0, maxSigma,
                   scale, popsize, maxEvaluations, keep, stopfitness, isInt, res>>

\* optimizeLDE_C, lines 417-424: the result buffer is filled
LdeReturn ==
    /\ pc = "return"
    /\ res' = [i \in 0 .. (dim + 3) |->
                  IF i < dim THEN bestX[i]
                  ELSE IF i = dim THEN bestY
                  ELSE IF i = dim + 1 THEN evaluationCounter
                  ELSE IF i = dim + 2 THEN iterations
                  ELSE stop]
    /\ pc' = "done"
    /\ UNCHANGED <<modeAll, rankVars, kernelVars, fitVars, popsize, maxEvaluations, keep,
                   stopfitness, iterations, bestY, bestX, bestI, stop, popX, popY,
                   popIter, isInt, p, evalX>>

\* the objective callback throws out of Fitness::eval, at the first or at
\* the second evaluation of slot p (the second is reached when the first
\* value can improve the slot).  Nothing of the slot is committed.  An
\* exception derived from std::exception is caught by optimizeLDE_C, any
\* other leaves optimizeLDE_C.
LdeThrow ==
    /\ pc = "slot"
    /\ \E k \in {0, 1} :
          /\ k = 1 => \E y \in EvalVals : y < popY[p]
          /\ evaluationCounter' = evaluationCounter + k
    /\ pc' \in {"catch", "escaped"}
    /\ UNCHANGED <<modeAll, rankVars, kernelVars, dim, lower, upper, guess, xmean, sigma0,
                   sigma, maxSigma, scale, popsize, maxEvaluations, keep, stopfitness,
                   iterations, bestY, bestX, bestI, stop, popX, popY, popIter, isInt,
                   p, evalX, res>>

\* optimizeLDE_C, lines 425-427: the handler prints e.what() and returns
LdeCatch ==
    /\ pc = "catch"
    /\ pc' = "done"
    /\ UNCHANGED <<modeAll, rankVars, kernelVars, fitVars, popsize, maxEvaluations, keep,
                   stopfitness, iterations, bestY, bestX, bestI, stop, popX, popY,
                   popIter, isInt, p, evalX, res>>

--------------------------------------------------------------------------
(* SpecLDE: optimizeLDE_C for small runs *)

\* the runs explored, as <<(lower, upper) of every coordinate, maxEvals,
\* whether integer flags are passed>>; (0, 0) is "no bounds".  Runs of one
\* generation over three boxes, a run of two generations over a narrow box.
LdeRuns ==
    {<<b, 1, f>> : b \in {<<1, 3>>, <<0, 2>>, <<0, 0>>}, f \in BOOLEAN}
    \cup {<<<<1, 2>>, 9, FALSE>>}
LdeDim == {1}
\* the guess lies in the box
LdeGuesses(b) == IF b = <<0, 0>> THEN {1} ELSE {g \in b[1] .. b[2] : g > b[1]}
LdeSigmas == {2}
LdePopsize == {4}
LdeKeep == {2}
LdeStopFitness == {Inf, <<1>>}

LdeInit ==
    /\ RankIdle /\ KernelIdle /\ ModeIdle /\ ParIdle /\ ApiIdle
    /\ pc = "start" /\ p = 0 /\ evalX = <<>> /\ res = <<>>
    /\ \E run \in LdeRuns :
          /\ \E d \in LdeDim, s \in LdeSigmas, g \in LdeGuesses(run[1]) :
                FitnessInit(d, constant(d, run[1][1]), constant(d, run[1][2]),
                            constant(d, g), constant(d, s))
          /\ \E n \in LdePopsize, k \in LdeKeep, sf \in LdeStopFitness :
             \E ii \in IF run[3] THEN [0 .. (dim - 1) -> BOOLEAN] ELSE {NULL} :
                /\ ii # NULL => \E i \in 0 .. (dim - 1) : ii[i]
                /\ LdeConstruct(n, run[2], k, sf, ii)

LdeNext == LdeEnter \/ LdeFor \/ LdeSlot \/ LdeReturn \/ LdeThrow \/ LdeCatch

SpecLDE == LdeInit /\ [][LdeNext]_vars

--------------------------------------------------------------------------
(* Claims about the LDE run *)

\* C4 as stated: when a serial run returns, the number of objective
\* evaluations performed is at most maxEvaluations.
C4_SerialBudget ==
    pc = "done" => evaluationCounter <= maxEvaluations

\* C5: from one step of the run to the next bestY never increases, and
\* bestX changes only in a step that strictly lowers bestY.
C5_MonotoneBest ==
    [][bestY' <= bestY /\ (bestX' # bestX => bestY' < bestY)]_vars

\* C5 witness: a slot step has lowered bestY below 1E99 and replaced bestX
C5_Witness ==
    /\ pc \in {"slot", "for"} /\ evaluationCounter > 0
    /\ bestY < E99 /\ bestX # guess

InBounds(x) == \A i \in Idx(x) : lower[i] <= x[i] /\ x[i] <= upper[i]

\* C6 as stated: with bounds active, every column of popX and bestX lies
\* within [lower, upper] at every point of the run.
C6_Bounds ==
    (pc # "idle" /\ Size(lower) > 0)
    => /\ \A q \in 0 .. (popsize - 1) : InBounds(popX[q])
       /\ InBounds(bestX)

\* C7 as stated: with integer flags set, every vector handed to eval has
\* an integer value at every flagged coordinate.
C7_IntegerPurity ==
    isInt # NULL
    => \A k \in 1 .. Len(evalX) : \A i \in 0 .. (dim - 1) :
          isInt[i] => IsInteger(evalX[k][i])

\* C18 as stated: at every point of the run between two slot steps,
\* popY[bestI] <= popY[q] for every slot q.
C18_IncumbentIndex ==
    pc \in {"for", "slot", "return", "done"}
    => \A q \in 0 .. (popsize - 1) : popY[bestI] <= popY[q]

\* C11 as stated: an exception raised inside the optimization loop does not
\* leave optimizeLDE_C, and when optimizeLDE_C has returned the caller's
\* result buffer holds the best X and the best value found.
C11_BestSoFarReturned ==
    /\ pc # "escaped"
    /\ pc = "done"
       => /\ res # <<>>
          /\ \A i \in 0 .. (dim - 1) : res[i] = bestX[i]
          /\ res[dim] = bestY

--------------------------------------------------------------------------
(* MoDeOptimizer.  Decision variables are integers; its Fitness (evaluator.h) *)
(* always has bounds.                                                      *)

\* the content of storage that was allocated but never written, or that
\* lies outside the object read
Indeterminate == 0 - 1

\* mat(rows, cols) of Eigen: allocated, not initialised
Uninitialized(rows, cols) ==
    [c \in 0 .. (cols - 1) |-> constant(rows, Indeterminate)]

\* the vectors of the box [lower, upper]
BoxVecs == ProductVec([j \in 0 .. (dim - 1) |-> lower[j] .. upper[j]])

\* the values one evaluation may return: finite ones, or (explored for a
\* single row) 1E99 for a component that is NaN or not finite
ModeYs(rows) ==
    [0 .. (rows - 1) -> IF rows = 1 THEN (0 .. MaxY) \cup {E99} ELSE 0 .. MaxY]

\* column c of m, or whatever lies behind the matrix
ReadCol(m, c) ==
    IF c \in DOMAIN m THEN m[c] ELSE constant(dim, Indeterminate)

\* MoDeOptimizer::MoDeOptimizer and init()
ModeConstruct(dim_, nobj_, ncon_, popsize_, maxEvaluations_, nsga_update_, log_period_, isInt_) ==
    /\ dim = dim_ /\ nobj = nobj_ /\ ncon = ncon_
    /\ popsize = IF popsize_ > 0 THEN popsize_ ELSE 128
    /\ maxEvaluations = IF maxEvaluations_ > 0 THEN maxEvaluations_ ELSE 500000
    /\ iterations = 0 /\ n_evals = 0 /\ pos = 0
    /\ nsga_update = nsga_update_
    /\ pareto_update = 0
    /\ log_period = IF log_period_ <= 0 THEN 1000 ELSE log_period_
    /\ isInt = isInt_
    /\ stop = 0
    /\ \E s \in [0 .. (popsize - 1) -> BoxVecs] :
          popX = [c \in 0 .. (2 * popsize - 1) |->
                     IF c < popsize THEN s[c] ELSE constant(dim, Indeterminate)]
    /\ popY = [c \in 0 .. (2 * popsize - 1) |->
                  constant(nobj + ncon, IF c < popsize THEN DBL_MAX ELSE Indeterminate)]
    /\ vdone = [c \in 0 .. (2 * popsize - 1) |-> FALSE]
    /\ nX = Uninitialized(dim, 2 * popsize)
    /\ nY = Uninitialized(nobj + ncon, 2 * popsize)
    /\ vX = popX
    /\ vp = 0

\* mat variation(const mat &x): SBX crossover and polynomial mutation with
\* random spreads, clamped to the box: 2 * (cols / 2) columns of the box
variation(x) == [0 .. (2 * (Size(x) \div 2) - 1) -> BoxVecs]

\* void modify(vec &x) of MoDeOptimizer: each integer coordinate is kept or
\* replaced by a truncated sample of [lower, upper]
mode_modify(x) ==
    IF isInt = NULL THEN {x}
    ELSE ProductVec([j \in Idx(x) |->
            IF isInt[j] THEN {x[j]} \cup (lower[j] .. upper[j]) ELSE {x[j]}])

\* the DE trial vectors of nextX for slot p_: r1, r2, r3 distinct and
\* different from p_; none if the population has fewer than 4 members (the
\* do-while loop never ends)
de_trial(p_, F) ==
    LET I == 0 .. (popsize - 1)
        donors == {r \in I \X I \X I :
                      /\ r[1] # p_ /\ r[2] # p_ /\ r[3] # p_
                      /\ r[1] # r[2] /\ r[1] # r[3] /\ r[2] # r[3]}
        mixed == {getClosestFeasible([j \in 0 .. (dim - 1) |->
                      IF j = r \/ j \in cr
                      THEN popX[t[3]][j] + F * (popX[t[1]][j] - popX[t[2]][j])
                      ELSE popX[p_][j]]) :
                  t \in donors, r \in 0 .. (dim - 1), cr \in SUBSET (0 .. (dim - 1))}
    IN UNION {mode_modify(x) : x \in mixed}

\* vec nextX(int p) called with iterations = it, vp = vp_ and the terminate
\* flag tm: the set of <<x, iterations, vp, terminate>> it may leave
nextX(p_, it, vp_, tm) ==
    LET it1 == IF p_ = 0 THEN it + 1 ELSE it
        logged == IF p_ = 0 /\ it1 % log_period = 0 THEN BOOLEAN ELSE {FALSE}
        F == IF it1 % 2 = 0 THEN F0 \div 2 ELSE F0
    IN IF nsga_update
       THEN {<<ReadCol(vX, vp_), it1, (vp_ + 1) % popsize, tm \/ b>> : b \in logged}
       ELSE {<<x, it1, vp_, tm \/ b>> : x \in de_trial(p_, F), b \in logged}

\* lines 409-412 with the mutation "the levels are walked from the lowest"
LevelOf_lowestFirst(domination, dom) ==
    Ascending({c \in Idx(domination) : domination[c] = maxCoeff(domination) - dom})

\* lines 409-412: the columns of domination level dom, ascending
LevelOf(domination, dom) ==
    Ascending({c \in Idx(domination) : domination[c] = dom})

\* the columns pop_update keeps, as indices into the sorted 2N columns:
\* domination levels from dom downwards, sel admitted so far
RECURSIVE Survivors(_, _, _, _)
Survivors(y0, domination, dom, sel) ==
    IF dom < 0 THEN {sel}
    ELSE LET level == LevelOf(domination, dom)
         IN IF Len(sel) + Len(level) <= popsize
            THEN Survivors(y0, domination, dom - 1, sel \o level)
            ELSE IF Len(level) > 1
                 THEN LET domy == Cols(y0, Vec(level))
                          sis == UNION {{Reverse(si) : si \in sort_index(cd)} :
                                        cd \in crowd_dist(domy)}
                      IN {sel \o [k \in 1 .. (popsize - Len(sel)) |-> level[si[k - 1] + 1]] :
                             si \in sis}
                 ELSE {sel}

\* lines 397-442 of pop_update() on the columns pX, pY: the set of
\* <<popX, popY>> they may leave
Survive(pX, pY) ==
    LET sorted == IF nobj = 1
                  THEN {<<Cols(pX, Reverse(si)), Cols(pY, Reverse(si))>> :
                           si \in sort_index(Row(pY, 0))}
                  ELSE {<<pX, pY>>}
        kept(x0, y0) ==
            UNION {{<<[c \in Idx(pX) |-> IF c < popsize THEN x0[sel[c + 1]] ELSE pX[c]],
                      [c \in Idx(pY) |-> IF c < popsize THEN y0[sel[c + 1]] ELSE pY[c]]>> :
                       sel \in Survivors(y0, domination, maxCoeff(domination), <<>>)} :
                   domination \in pareto(y0)}
    IN UNION {kept(xy[1], xy[2]) : xy \in sorted}

\* lines 397-438 of pop_update() on the columns pY: the set of <<yi,
\* domination, sel>> it may compute.  yi is the order the columns are put
\* in (sorted column c is column yi[c]), domination the scores of the
\* sorted columns, sel the sorted columns kept, in the order of the new
\* population.
pop_update_sel(pY) ==
    LET yis == IF nobj = 1
               THEN {Reverse(si) : si \in sort_index(Row(pY, 0))}
               ELSE {[c \in Idx(pY) |-> c]}
    IN UNION {UNION {{<<yi, domination, sel>> :
                         sel \in Survivors(Cols(pY, yi), domination,
                                           maxCoeff(domination), <<>>)} :
                     domination \in pareto(Cols(pY, yi))} :
              yi \in yis}

\* void pop_update() on the columns pX, pY with nsga_update = nsga: the set
\* of <<popX, popY, vX>> it may leave
pop_update(pX, pY, nsga) ==
    UNION {{<<r[1], r[2], v>> :
               v \in IF nsga
                     THEN variation([c \in 0 .. (popsize - 1) |-> r[1][c]])
                     ELSE {vX}} :
           r \in Survive(pX, pY)}

\* bool is_dominated(const vec &y, int p) with the mutation "equal values
\* count as an improvement"
is_dominated_strict(y, p_) ==
    \A j \in Idx(y) : ~(y[j] <= popY[p_][j])

\* bool is_dominated(const vec &y, int p)
is_dominated(y, p_) ==
    \A j \in Idx(y) : ~(y[j] < popY[p_][j])

\* line 468 with the mutation "the pending results are moved one result
\* late"
PendingFull_late(ndone) == ndone > popsize
\* line 468: ndone >= popsize
PendingFull(ndone) == ndone >= popsize

\* int tell(const vec &y, const vec &x, int p)
tell(y, x, p_) ==
    IF is_dominated(y, p_)
    THEN UNCHANGED <<nX, nY, vdone, popX, popY, vX, n_evals>>
    ELSE LET dp == CHOOSE d \in Idx(vdone) :
                      ~vdone[d] /\ \A e \in 0 .. (d - 1) : vdone[e]
             nX1 == [nX EXCEPT ![dp] = x]
             nY1 == [nY EXCEPT ![dp] = y]
             vdone1 == [vdone EXCEPT ![dp] = TRUE]
             done == AscendingVec({d \in Idx(vdone1) : vdone1[d]})
             moved(pop, n) ==
                 [c \in Idx(pop) |->
                     IF c >= popsize /\ c - popsize < Size(done)
                     THEN n[done[c - popsize]] ELSE pop[c]]
         IN /\ nX' = nX1
            /\ nY' = nY1
            /\ n_evals' = n_evals + 1
            /\ IF PendingFull(Size(done))
               THEN /\ vdone' = [d \in Idx(vdone) |-> FALSE]
                    /\ \E r \in pop_update(moved(popX, nX1), moved(popY, nY1), nsga_update) :
                          popX' = r[1] /\ popY' = r[2] /\ vX' = r[3]
               ELSE /\ vdone' = vdone1
                    /\ UNCHANGED <<popX, popY, vX>>

--------------------------------------------------------------------------
(* SpecSurvive: pop_update applied to every small population of 2N columns *)

\* the populations explored, as <<popsize, nobj, ncon>>
SurviveShapes == {<<2, 1, 0>>, <<3, 1, 0>>, <<2, 2, 0>>, <<2, 1, 1>>}

SurviveInit ==
    /\ FitIdle /\ ModeIdle /\ ParIdle /\ ApiIdle
    /\ maxEvaluations = 0 /\ keep = 0 /\ stopfitness = Inf
    /\ iterations = 0 /\ bestY = 0 /\ bestX = <<>> /\ bestI = 0 /\ stop = 0
    /\ popX = <<>> /\ popY = <<>> /\ popIter = <<>> /\ isInt = NULL
    /\ pc = "idle" /\ p = 0 /\ evalX = <<>> /\ res = <<>>
    /\ op = "input"
    /\ ret = <<>>
    /\ \E sh \in SurviveShapes :
          /\ popsize = sh[1]
          /\ nobj = sh[2]
          /\ ncon = sh[3]
          /\ arg \in RankInputs(2 * sh[1], sh[2], sh[3])

\* pop_update applied to popY = arg; ret is <<yi, domination, sel>>
CallPopUpdate ==
    /\ op = "input"
    /\ \E r \in pop_update_sel(arg) :
          /\ ret' = r
          /\ popY' = [c \in Idx(arg) |->
                         IF c < popsize THEN arg[r[1][r[3][c + 1]]] ELSE arg[c]]
    /\ op' = "pop_update"
    /\ UNCHANGED <<arg, kernelVars, fitVars, modeAll, popsize, maxEvaluations, keep,
                   stopfitness, iterations, bestY, bestX, bestI, stop, popX, popIter,
                   isInt, pc, p, evalX, res>>

SurviveNext == CallPopUpdate

SpecSurvive == SurviveInit /\ [][SurviveNext]_vars

\* the sorted columns pop_update admitted
AdmittedSorted == {ret[3][k] : k \in 1 .. Len(ret[3])}
\* the columns of the working set pop_update admitted and excluded
Admitted == {ret[1][c] : c \in AdmittedSorted}
Excluded == Idx(arg) \ Admitted

\* C14: after pop_update the first N columns of the population are N
\* distinct columns of the 2N working columns, and no excluded column has a
\* strictly higher domination score than an admitted column.
C14_SurvivalSelection ==
    op = "pop_update"
    => /\ Len(ret[3]) = popsize
       /\ Cardinality(Admitted) = popsize
       /\ Admitted \subseteq Idx(arg)
       /\ \A k \in 0 .. (popsize - 1) : popY[k] = arg[ret[1][ret[3][k + 1]]]
       /\ \A c \in popsize .. (2 * popsize - 1) : popY[c] = arg[c]
       /\ \A a \in AdmittedSorted, b \in Idx(arg) \ AdmittedSorted :
             ~(ret[2][b] > ret[2][a])

\* C14 witness: pop_update has admitted higher levels whole and a part of
\* the last level: an excluded column has the score of an admitted one,
\* another admitted column a higher score
C14_Witness ==
    /\ op = "pop_update" /\ nobj = 2
    /\ \E a, c \in AdmittedSorted, b \in Idx(arg) \ AdmittedSorted :
          ret[2][b] = ret[2][a] /\ ret[2][c] > ret[2][a]

\* C19 as stated: with nobj = 1 and ncon = 0, after pop_update no excluded
\* column of the 2N working columns has a strictly smaller fitness than an
\* admitted column.
C19_SingleObjectiveSurvival ==
    (op = "pop_update" /\ nobj = 1 /\ ncon = 0)
    => \A a \in Admitted, b \in Excluded : ~(arg[b][0] < arg[a][0])

--------------------------------------------------------------------------
(* optimizeMODE_C: the serial loop and the delayed-update driver with its  *)
(* evaluator.  The evaluator (evaluator.h) is a pool of worker threads     *)
(* fed by a request queue and emptied through a result queue: a worker     *)
(* takes a request, calls the objective, counts the evaluation and queues  *)
(* the result; shutdown drains the pending requests and joins the workers. *)

\* what no step of an optimizeMODE_C run changes
modeFixed == <<rankVars, kernelVars, dim, lower, upper, guess, xmean, sigma0, sigma,
               maxSigma, scale, popsize, maxEvaluations, keep, stopfitness, bestY,
               bestX, bestI, stop, popIter, isInt, p, evalX, nsga_update,
               pareto_update, log_period, xs>>

\* memcpy(res, opt.getX().data(), ...): popX flattened column-major
Flat(m, rows) == [k \in 0 .. (rows * Size(m) - 1) |-> m[k \div rows][k % rows]]

\* vec ask(int &p): the set of <<x, p, iterations, vp, terminate>> it may
\* leave; pos advances by one
ask == {<<r[1], pos, r[2], r[3], r[4]>> : r \in nextX(pos, iterations, vp, terminate)}

\* x = ask(p); eval.evaluate(x, p); evals_x[p] = x;
AskAndEvaluate ==
    \E a \in ask :
       /\ iterations' = a[3]
       /\ vp' = a[4]
       /\ terminate' = a[5]
       /\ pos' = (pos + 1) % popsize
       /\ requests' = Append(requests, <<a[1], a[2]>>)
       /\ evals_x' = [evals_x EXCEPT ![a[2]] = a[1]]

\* line 550 with the mutation "the budget is not tested after tell"
BudgetSpent_never == FALSE
\* line 550: fitfun->evaluations() >= maxEvaluations
BudgetSpent == evaluationCounter >= maxEvaluations

\* do_optimize_delayed_update, lines 531-535
ParEnter ==
    /\ pc = "start" /\ workers > 1
    /\ iterations' = 0
    /\ evaluationCounter' = 0
    /\ workers' = Min(workers, popsize)
    /\ jobs' = [w \in 1 .. Min(workers, popsize) |-> <<>>]
    /\ evals_x' = [q \in 0 .. (popsize - 1) |-> <<>>]
    /\ prime_i' = 0
    /\ pc' = "prime"
    /\ UNCHANGED <<modeFixed, popX, popY, res, nX, nY, vdone, vX, vp, pos, n_evals,
                   terminate, requests, results, told>>

\* one pass of the priming loop, lines 537-542
ParPrime ==
    /\ pc = "prime"
    /\ IF prime_i < workers
       THEN /\ AskAndEvaluate
            /\ prime_i' = prime_i + 1
            /\ pc' = pc
       ELSE /\ pc' = "while"
            /\ UNCHANGED <<iterations, vp, terminate, pos, requests, evals_x, prime_i>>
    /\ UNCHANGED <<modeFixed, evaluationCounter, popX, popY, res, nX, nY, vdone, vX,
                   n_evals, workers, jobs, results, told>>

\* the test of the while loop, line 543
ParWhile ==
    /\ pc = "while"
    /\ pc' = IF evaluationCounter < maxEvaluations /\ ~terminate THEN "result" ELSE "exit"
    /\ UNCHANGED <<modeFixed, evaluationCounter, iterations, popX, popY, res, nX, nY,
                   vdone, vX, vp, pos, n_evals, terminate, workers, prime_i, requests,
                   jobs, results, evals_x, told>>

\* lines 544-549: the driver takes the next result and tells it
ParResult ==
    /\ pc = "result"
    /\ results # <<>>
    /\ LET vid == Head(results)
           y == vid[1]
           p_ == vid[2]
           x == evals_x[p_]
       IN /\ tell(y, x, p_)
          /\ told' = <<y, x, p_, popY[p_], vid[3]>>
    /\ results' = Tail(results)
    /\ pc' = "check"
    /\ UNCHANGED <<modeFixed, evaluationCounter, iterations, res, vp, pos, terminate,
                   workers, prime_i, requests, jobs, evals_x>>

\* lines 550-554: leave the loop, or ask and dispatch the next trial
ParCheck ==
    /\ pc = "check"
    /\ IF BudgetSpent
       THEN /\ pc' = "exit"
            /\ UNCHANGED <<iterations, vp, terminate, pos, requests, evals_x>>
       ELSE /\ AskAndEvaluate
            /\ pc' = "while"
    /\ UNCHANGED <<modeFixed, evaluationCounter, popX, popY, res, nX, nY, vdone, vX,
                   n_evals, workers, prime_i, jobs, results, told>>

\* evaluator: an idle worker thread takes the next request
WorkerTake ==
    /\ requests # <<>>
    /\ \E w \in DOMAIN jobs :
          /\ jobs[w] = <<>>
          /\ \A v \in DOMAIN jobs : v < w => jobs[v] # <<>>
          /\ jobs' = [jobs EXCEPT ![w] = Head(requests)]
    /\ requests' = Tail(requests)
    /\ UNCHANGED <<modeFixed, evaluationCounter, iterations, popX, popY, pc, res, nX,
                   nY, vdone, vX, vp, pos, n_evals, terminate, workers, prime_i,
                   results, evals_x, told>>

\* evaluator: a worker thread returns from the objective, counts the
\* evaluation and queues the result
WorkerFinish ==
    /\ \E w \in DOMAIN jobs :
          /\ jobs[w] # <<>>
          /\ \E y \in ModeYs(nobj + ncon) :
                results' = Append(results, <<y, jobs[w][2], jobs[w][1]>>)
          /\ jobs' = [jobs EXCEPT ![w] = <<>>]
    /\ evaluationCounter' = evaluationCounter + 1
    /\ UNCHANGED <<modeFixed, iterations, popX, popY, pc, res, nX, nY, vdone, vX, vp,
                   pos, n_evals, terminate, workers, prime_i, requests, evals_x, told>>

\* doOptimize, lines 489-490
SerEnter ==
    /\ pc = "start" /\ workers <= 1
    /\ iterations' = 0
    /\ evaluationCounter' = 0
    /\ pc' = "serial"
    /\ UNCHANGED <<modeFixed, popX, popY, res, nX, nY, vdone, vX, vp, pos, n_evals,
                   terminate, parVars>>

\* the slots p_ .. popsize - 1 of one generation of doOptimize: the set of
\* <<popX, popY, iterations, vp, terminate>> they may leave
RECURSIVE SerSlots(_, _, _, _, _, _)
SerSlots(p_, pX, pY, it, vp_, tm) ==
    IF p_ >= popsize THEN {<<pX, pY, it, vp_, tm>>}
    ELSE UNION {SerSlots(p_ + 1,
                         [pX EXCEPT ![popsize + p_] = r[1]],
                         [pY EXCEPT ![popsize + p_] = y],
                         r[2], r[3], r[4]) :
                r \in nextX(p_, it, vp_, tm), y \in ModeYs(nobj + ncon)}

\* one pass of the while loop of doOptimize, lines 491-500
SerGeneration ==
    /\ pc = "serial"
    /\ IF evaluationCounter < maxEvaluations /\ ~terminate
       THEN /\ \E g \in SerSlots(0, popX, popY, iterations, vp, terminate) :
                  /\ iterations' = g[3]
                  /\ vp' = g[4]
                  /\ terminate' = g[5]
                  /\ \E r \in pop_update(g[1], g[2], nsga_update) :
                        popX' = r[1] /\ popY' = r[2] /\ vX' = r[3]
            /\ evaluationCounter' = evaluationCounter + popsize
            /\ pc' = pc
       ELSE /\ pc' = "exit"
            /\ UNCHANGED <<iterations, vp, terminate, popX, popY, vX, evaluationCounter>>
    /\ UNCHANGED <<modeFixed, res, nX, nY, vdone, pos, n_evals, parVars>>

\* doOptimize: fitfun->eval throws at slot 0 of a generation, after
\* nextX(0) and the store of its trial.  An exception derived from
\* std::exception is caught by optimizeMODE_C, any other leaves it.
ModeThrow ==
    /\ pc = "serial"
    /\ evaluationCounter < maxEvaluations /\ ~terminate
    /\ \E r \in nextX(0, iterations, vp, terminate) :
          /\ popX' = [popX EXCEPT ![popsize] = r[1]]
          /\ iterations' = r[2]
          /\ vp' = r[3]
          /\ terminate' = r[4]
    /\ pc' \in {"catch", "escaped"}
    /\ UNCHANGED <<modeFixed, evaluationCounter, popY, res, nX, nY, vdone, vX, pos,
                   n_evals, parVars>>

\* optimizeMODE_C, lines 681-683: the handler prints e.what() and returns
ModeCatch ==
    /\ pc = "catch"
    /\ pc' = "done"
    /\ UNCHANGED <<modeFixed, evaluationCounter, iterations, popX, popY, res, nX, nY,
                   vdone, vX, vp, pos, n_evals, terminate, parVars>>

\* optimizeMODE_C, lines 677-680: the evaluator, if any, has drained and
\* joined; the population is copied to the result buffer
ModeReturn ==
    /\ pc = "exit"
    /\ requests = <<>>
    /\ \A w \in DOMAIN jobs : jobs[w] = <<>>
    /\ res' = Flat(popX, dim)
    /\ pc' = "done"
    /\ UNCHANGED <<modeFixed, evaluationCounter, iterations, popX, popY, nX, nY, vdone,
                   vX, vp, pos, n_evals, terminate, parVars>>

--------------------------------------------------------------------------
(* SpecMODE: optimizeMODE_C for small runs *)

\* the runs explored, as <<nsga_update, popsize, <<nobj, ncon>>, maxEvals,
\* workers, log_period, <<lower, upper>> of every coordinate>>.  The DE
\* update needs 4 population members; the parallel driver is explored
\* without constraints.
ModeRuns ==
    {<<TRUE, 2, <<1, 0>>, m, w, l, <<0, 1>>>> : m \in {1, 3}, w \in {2, 3}, l \in {1, 1000}}
    \cup {<<TRUE, 2, <<2, 0>>, 4, 2, 1000, <<0, 0>>>>}
    \cup {<<FALSE, 4, <<1, 0>>, 1, 3, 1000, <<0, 1>>>>}
    \cup {<<FALSE, 4, <<1, 0>>, 2, w, 1000, <<0, 0>>>> : w \in {4, 5}}
    \cup {<<TRUE, 2, <<1, 0>>, 3, 1, 1000, <<0, 1>>>>, <<TRUE, 2, <<1, 1>>, 1, 1, 1000, <<0, 1>>>>}
    \cup {<<TRUE, 2, <<1, 0>>, 3, 1, 1, <<0, 0>>>>}
ModeDim == {1}

ModeInit ==
    /\ RankIdle /\ ApiIdle
    /\ guess = <<>> /\ xmean = <<>> /\ sigma0 = <<>> /\ sigma = <<>>
    /\ maxSigma = <<>> /\ scale = <<>>
    /\ keep = 0 /\ stopfitness = Inf /\ bestY = 0 /\ bestX = <<>> /\ bestI = 0
    /\ popIter = <<>> /\ p = 0 /\ evalX = <<>>
    /\ pc = "start" /\ res = <<>> /\ evaluationCounter = 0 /\ terminate = FALSE
    /\ prime_i = 0 /\ requests = <<>> /\ jobs = <<>> /\ results = <<>>
    /\ evals_x = <<>> /\ told = <<>>
    /\ \E d \in ModeDim, run \in ModeRuns :
          /\ lower = constant(d, run[7][1])
          /\ upper = constant(d, run[7][2])
          /\ workers = run[5]
          /\ ModeConstruct(d, run[3][1], run[3][2], run[2], run[4], run[1], run[6], NULL)

ModeNext ==
    \/ ParEnter \/ ParPrime \/ ParWhile \/ ParResult \/ ParCheck
    \/ WorkerTake \/ WorkerFinish
    \/ SerEnter \/ SerGeneration
    \/ ModeThrow \/ ModeCatch
    \/ ModeReturn

SpecMODE == ModeInit /\ [][ModeNext]_vars

--------------------------------------------------------------------------
(* Claims about the MODE run *)

\* C1: whenever tell(y, x, p) is called with no component of y strictly
\* smaller than the corresponding component of popY[., p], the pending
\* buffers nX, nY, vdone and the population popX, popY are left unchanged.
C1_TellRejection ==
    [][(/\ pc = "result" /\ pc' = "check"
        /\ \A j \in Idx(told'[1]) : ~(told'[1][j] < popY[told'[3]][j]))
       => UNCHANGED <<nX, nY, vdone, popX, popY>>]_vars

\* C1 witness: tell has just been called with a result that is in no
\* component better than a finite incumbent of its slot
C1_Witness ==
    /\ pc = "check" /\ told # <<>>
    /\ \A j \in Idx(told[1]) : ~(told[1][j] < told[4][j]) /\ told[4][j] < DBL_MAX

\* evaluations handed to the evaluator so far: counted, running or queued
Submitted ==
    evaluationCounter + Cardinality({w \in DOMAIN jobs : jobs[w] # <<>>}) + Len(requests)

\* C3: at every point of a run of do_optimize_delayed_update, and so at its
\* end, the evaluations completed or in flight number at most
\* maxEvaluations + W - 1, W = min(workers, popsize).
C3_ParallelBudget ==
    jobs # <<>> => Submitted <= maxEvaluations + Min(workers, popsize) - 1

\* C3 witness: a parallel run with W >= 2 has returned after exactly
\* maxEvaluations + W - 1 evaluations
C3_Witness ==
    /\ pc = "done" /\ jobs # <<>> /\ workers >= 2
    /\ evaluationCounter = maxEvaluations + workers - 1

\* the number of ready slots of the pending buffer
ReadySlots == {d \in Idx(vdone) : vdone[d]}

\* the last step was a call of tell that accepted its result
Accepted ==
    /\ pc = "check" /\ told # <<>>
    /\ \E j \in Idx(told[1]) : told[1][j] < told[4][j]

\* C13: when tell returns, between 0 and N - 1 pending slots are ready.
\* The accepted result that makes N slots ready has exactly those N
\* pending (x, y) pairs copied, in slot order, to the columns N .. 2N - 1
\* of popX / popY, every ready flag cleared, and the population replaced by
\* one pop_update of the columns so filled.  Every other tell leaves the
\* population alone.
C13_TellPending ==
    /\ [](Cardinality(ReadySlots) <= popsize - 1)
    /\ [][(pc = "result" /\ pc' = "check")
          => LET dp == CHOOSE d \in Idx(vdone) : ~vdone[d] /\ \A e \in 0 .. (d - 1) : vdone[e]
                 ready == AscendingVec(ReadySlots \cup {dp})
                 inX == [c \in Idx(popX) |-> IF c < popsize THEN popX[c] ELSE popX'[c]]
                 inY == [c \in Idx(popY) |-> IF c < popsize THEN popY[c] ELSE popY'[c]]
             IN IF Accepted' /\ Cardinality(ReadySlots) = popsize - 1
                THEN /\ ReadySlots' = {}
                     /\ nX'[dp] = told'[2] /\ nY'[dp] = told'[1]
                     /\ \A k \in 0 .. (popsize - 1) :
                           /\ popX'[popsize + k] = nX'[ready[k]]
                           /\ popY'[popsize + k] = nY'[ready[k]]
                     /\ <<popX', popY', vX'>> \in pop_update(inX, inY, nsga_update)
                ELSE UNCHANGED <<popX, popY, vX>>]_vars

\* C13 witness: tell has just accepted the result that completed a batch
\* of N pending results and has moved the batch into the population
C13_Witness ==
    /\ Accepted /\ ReadySlots = {} /\ n_evals >= popsize
    /\ \A k \in 0 .. (popsize - 1) : popY[popsize + k] = nY[k]

\* C15 as stated: in NSGA mode the cursor vp is 0 after every pop_update,
\* those run by doOptimize and those run by tell when its pending buffer
\* is full.
C15_CursorReset ==
    (/\ nsga_update
     /\ \/ pc = "serial" /\ evaluationCounter > 0
        \/ Accepted /\ ReadySlots = {})
    => vp = 0

\* C17 as stated: the vector x that the delayed-update driver passes to
\* tell with a result (y, p) is the vector whose evaluation produced y.
C17_ResultPairing ==
    (pc = "check" /\ told # <<>>) => told[2] = told[5]

\* C12 as stated: once the log callback has returned true no further ask
\* begins and no further evaluation is started.  While the terminate flag
\* is set no step asks or dispatches; the step in which the callback
\* raises the flag starts at most the evaluation of the trial whose ask
\* called it.
C12_Cancellation ==
    [][/\ terminate
          => /\ iterations' = iterations /\ pos' = pos
             /\ Len(requests') <= Len(requests)
       /\ (~terminate /\ terminate')
          => /\ Len(requests') <= Len(requests) + 1
             /\ pc = "serial" => evaluationCounter' <= evaluationCounter + 1]_vars

--------------------------------------------------------------------------
(* The ask/tell interface: initMODE_C, askMODE_C, tellMODE_C,              *)
(* tellMODE_switchC, populationMODE_C                                      *)

\* the generations a caller asks for at most
MaxAsks == 2

\* what no call of the ask/tell interface changes
apiFixed == <<kernelVars, dim, lower, upper, guess, xmean, sigma0, sigma, maxSigma,
              scale, evaluationCounter, popsize, maxEvaluations, keep, stopfitness,
              bestY, bestX, bestI, stop, popIter, isInt, p, evalX, res, log_period,
              nX, nY, vdone, pos, n_evals, parVars>>

\* mat askAll(): the slots p_ .. popsize - 1; the set of <<popX, iterations,
\* vp, terminate>> they may leave
RECURSIVE AskSlots(_, _, _, _, _)
AskSlots(p_, pX, it, vp_, tm) ==
    IF p_ >= popsize THEN {<<pX, it, vp_, tm>>}
    ELSE UNION {AskSlots(p_ + 1, [pX EXCEPT ![popsize + p_] = r[1]], r[2], r[3], r[4]) :
                r \in nextX(p_, it, vp_, tm)}

\* void askMODE_C(uintptr_t ptr, double* xs).  The caller alternates
\* between asking for a generation and telling its values.
AskMODE ==
    /\ pc = "ready"
    /\ iterations < MaxAsks
    /\ \E a \in AskSlots(0, popX, iterations, vp, terminate) :
          /\ popX' = a[1]
          /\ iterations' = a[2]
          /\ vp' = a[3]
          /\ terminate' = a[4]
          /\ xs' = [k \in 0 .. (dim * popsize - 1) |-> a[1][popsize + k \div dim][k % dim]]
    /\ op' = "ask"
    /\ pc' = "asked"
    /\ UNCHANGED <<apiFixed, arg, ret, popY, vX, nsga_update, pareto_update>>

\* the buffers a caller may pass to tellMODE_C: nobj + ncon values for each
\* of the popsize individuals
TellBuffers == [0 .. ((nobj + ncon) * popsize - 1) -> 0 .. MaxY]

\* tellMODE_C, lines 734-740: mat vals(nobj, popsize) filled from ys
TellVals(ys) == [p_ \in 0 .. (popsize - 1) |-> [k \in 0 .. (nobj - 1) |-> ys[p_ * nobj + k]]]

\* popY.col(popsize + p) = ys.col(p) of tellAll for every p: the matrices
\* popY it may leave.  A column of popY has nobj + ncon rows, a column of
\* vals has nobj.  With ncon > 0 the assignment reads the rows from nobj on
\* behind the column of vals: the values of the next column, or, behind
\* the last column, whatever the heap holds.
TellAllColumns(vals) ==
    LET behind(p_, k) == IF p_ * nobj + k < nobj * popsize
                         THEN {vals[(p_ * nobj + k) \div nobj][(p_ * nobj + k) % nobj]}
                         ELSE 0 .. MaxY
        stored == ProductVec([q \in 0 .. (popsize - 1) |->
                     ProductVec([k \in 0 .. (nobj + ncon - 1) |->
                        IF k < nobj THEN {vals[q][k]} ELSE behind(q, k)])])
    IN {[c \in Idx(popY) |-> IF c >= popsize THEN st[c - popsize] ELSE popY[c]] :
           st \in stored}

\* int tellAll(mat ys), called with vals built from the caller's buffer
\* and with nsga_update = nsga.  Where the sizes of the columns differ, a
\* build with Eigen's assertions aborts instead.
TellAll(vals, nsgas) ==
    \/ /\ \E pY \in TellAllColumns(vals) :
          \E s \in Survive(popX, pY) :
             /\ popX' = s[1]
             /\ popY' = s[2]
             /\ \E nsga \in nsgas :
                   /\ nsga_update' = nsga
                   /\ vX' \in IF nsga
                              THEN variation([c \in 0 .. (popsize - 1) |-> s[1][c]])
                              ELSE {vX}
       /\ ret' = stop
       /\ pc' = "ready"
    \/ /\ ncon > 0
       /\ nsga_update' \in nsgas
       /\ pc' = "aborted"
       /\ UNCHANGED <<popX, popY, vX, ret>>

\* int tellMODE_C(uintptr_t ptr, double* ys)
TellMODE ==
    /\ pc = "asked"
    /\ \E ys \in TellBuffers :
          /\ arg' = ys
          /\ TellAll(TellVals(ys), {nsga_update})
    /\ op' = "tell"
    /\ UNCHANGED <<apiFixed, iterations, vp, terminate, xs, pareto_update>>

\* int tellMODE_switchC(uintptr_t ptr, double* ys, bool nsga_update,
\*                      double pareto_update)
TellMODE_switch ==
    /\ pc = "asked"
    /\ pareto_update' \in {0, 1}
    /\ \E ys \in TellBuffers :
          /\ arg' = ys
          /\ TellAll(TellVals(ys), BOOLEAN)
    /\ op' = "tell_switch"
    /\ UNCHANGED <<apiFixed, iterations, vp, terminate, xs>>

\* int populationMODE_C(uintptr_t ptr, double* xs): the loop copies from
\* xs into a local vector, the caller's buffer is not written
PopulationMODE ==
    /\ pc \in {"ready", "asked"}
    /\ op' = "population"
    /\ ret' = stop
    /\ UNCHANGED <<apiFixed, arg, pc, iterations, popX, popY, vX, vp, terminate, xs,
                   nsga_update, pareto_update>>

--------------------------------------------------------------------------
(* SpecAskTell: an optimizer made by initMODE_C and driven by its caller *)

\* the optimizers explored, as <<nsga_update, popsize, <<nobj, ncon>>,
\* <<lower, upper>> of every coordinate>>
ApiRuns ==
    {<<TRUE, 2, <<1, 0>>, <<0, 1>>>>, <<TRUE, 2, <<2, 0>>, <<0, 0>>>>,
     <<TRUE, 2, <<1, 1>>, <<0, 0>>>>, <<TRUE, 3, <<1, 0>>, <<0, 0>>>>}

\* initMODE_C passes INT_MAX as log_period
INT_MAX == 2147483647

AskTellInit ==
    /\ op = "initMODE" /\ arg = <<>> /\ ret = <<>> /\ xs = <<>>
    /\ guess = <<>> /\ xmean = <<>> /\ sigma0 = <<>> /\ sigma = <<>>
    /\ maxSigma = <<>> /\ scale = <<>>
    /\ keep = 0 /\ stopfitness = Inf /\ bestY = 0 /\ bestX = <<>> /\ bestI = 0
    /\ popIter = <<>> /\ p = 0 /\ evalX = <<>>
    /\ pc = "ready" /\ res = <<>> /\ evaluationCounter = 0 /\ terminate = FALSE
    /\ ParIdle
    /\ \E d \in ModeDim, run \in ApiRuns :
          /\ lower = constant(d, run[4][1])
          /\ upper = constant(d, run[4][2])
          /\ ModeConstruct(d, run[3][1], run[3][2], run[2], 0, run[1], INT_MAX, NULL)

AskTellNext == AskMODE \/ TellMODE \/ TellMODE_switch \/ PopulationMODE

SpecAskTell == AskTellInit /\ [][AskTellNext]_vars

--------------------------------------------------------------------------
(* Claims about the ask/tell interface *)

\* C10 as stated: after tellMODE(handle, ys), for every nobj >= 1 and
\* ncon >= 0, column popsize + p of popY holds the nobj + ncon values
\* ys[p * (nobj + ncon) ..] of individual p.
C10_TellLayout ==
    (op \in {"tell", "tell_switch"} /\ pc # "aborted")
    => \A p_ \in 0 .. (popsize - 1) : \A k \in 0 .. (nobj + ncon - 1) :
          popY[popsize + p_][k] = arg[p_ * (nobj + ncon) + k]

\* C20 as stated: in NSGA mode, for every popsize N >= 2, vX has a column
\* for every position 0 .. N - 1 of the cursor, and so the trials askMODE_C
\* hands out are columns of vX (vectors of the box).
C20_OffspringCount ==
    nsga_update
    => /\ \A c \in 0 .. (popsize - 1) : c \in DOMAIN vX
       /\ op = "ask" => \A k \in Idx(xs) : xs[k] # Indeterminate

\* C21 as stated: when populationMODE_C(handle, xs) has returned, the
\* caller's buffer xs holds the first popsize columns of popX, column-major
\* dim x popsize.
C21_PopulationOutput ==
    (op = "population" /\ xs # <<>>)
    => \A p_ \in 0 .. (popsize - 1) : \A i \in 0 .. (dim - 1) :
          xs[p_ * dim + i] = popX[p_][i]

==========================================================================
